---- MODULE Spec2Model ----
(***************************************************************************)
(* Model of network/SnapmakerOutputDevicePlugin.py: the discovery plugin   *)
(* that broadcasts "discover" on every IPv4 interface address, drains the  *)
(* replies, parses them and registers matching machines.                   *)
(*                                                                         *)
(* A datagram body is a sequence of bytes (0..255) and a Python str is a   *)
(* sequence of code points; bytes.decode("utf-8") turns one into the       *)
(* other.                                                                  *)
(***************************************************************************)
EXTENDS Integers, Sequences, FiniteSets, TLC

VARIABLES
    timerActive,        \* self._discover_timer.isActive()
    remaining,          \* self._discover_timer.remainingTime(), -1 when inactive
    discover_sockets,   \* self._discover_sockets: list of (socket, address_entry)
    sockets,            \* the QUdpSocket objects created so far, by identity
    registry,           \* the output device manager: devices in insertion order
    readyRead,          \* sockets whose readyRead signal is waiting for the event loop
    stopped,            \* the sockets of the channel set stop() last ran on
    last                \* what happened last: what the handler that ran did

vars == <<timerActive, remaining, discover_sockets, sockets, registry,
          readyRead, stopped, last>>

----------------------------------------------------------------------------
(* Bounds of the model. *)

\* at most this many datagrams wait on the sockets, all sockets together
MaxPending == 2
\* the model's clock advances in steps of this many milliseconds
TimeQuantum == 5000
\* at most this many QUdpSocket objects are ever created
MaxSockets == 3
\* at most this many datagrams wait on the socket whose parsing is studied
MaxCodecQueue == 2

----------------------------------------------------------------------------
(* Program constants. *)

DISCOVER_PORT == 20054

\* self._discover_timer.setInterval(10000)
TimerInterval == 10000

\* available_port = 20054
FirstAvailablePort == 20054

\* the code points of the characters the model writes
Ord ==
    [c \in {"@", "|", ":", "X", "Y", "J", "1", "2", "a", "b", "c", "d", "e", "i",
            "l", "m", "o", "r", "s", "v"} |->
        CASE c = "@" -> 64  [] c = "|" -> 124 [] c = ":" -> 58
          [] c = "X" -> 88  [] c = "Y" -> 89  [] c = "J" -> 74
          [] c = "1" -> 49  [] c = "2" -> 50
          [] c = "a" -> 97  [] c = "b" -> 98  [] c = "c" -> 99
          [] c = "d" -> 100 [] c = "e" -> 101 [] c = "i" -> 105
          [] c = "l" -> 108 [] c = "m" -> 109 [] c = "o" -> 111
          [] c = "r" -> 114 [] c = "s" -> 115 [] c = "v" -> 118]

\* a str literal: the code points of its characters
Str(chars) == [i \in 1..Len(chars) |-> Ord[chars[i]]]

\* ..config.MACHINE_NAME: the product identity. Its value is set outside this
\* file; the text "J1" stands for it.
MACHINE_NAME == Str(<<"J", "1">>)

\* b"discover"
ProbePayload == Str(<<"d", "i", "s", "c", "o", "v", "e", "r">>)

ModelKey == Str(<<"m", "o", "d", "e", "l">>)

Pipe == Ord["|"]
At == Ord["@"]
Colon == Ord[":"]

----------------------------------------------------------------------------
(* Python values. *)

None == [kind |-> "NoneType"]

NoError == "none"

\* Logger.info(msg, *args): a log entry
Info(msg, args) == [level |-> "info", msg |-> msg, args |-> args]

\* str.split(sep): the pieces between the occurrences of sep, at least one piece
RECURSIVE split(_, _)
split(s, sep) ==
    IF \E i \in 1..Len(s) : s[i] = sep
    THEN LET i == CHOOSE j \in 1..Len(s) :
                      s[j] = sep /\ \A k \in 1..(j - 1) : s[k] # sep
         IN  <<SubSeq(s, 1, i - 1)>> \o split(SubSeq(s, i + 1, Len(s)), sep)
    ELSE <<s>>

\* sep in s
contains(s, sep) == \E i \in 1..Len(s) : s[i] = sep

\* bytes.decode("utf-8") for the one- and two-byte forms: the code points, or
\* UnicodeDecodeError. (The model's datagrams hold no three- or four-byte form.)
RECURSIVE decode(_)
decode(data) ==
    IF data = <<>> THEN [err |-> NoError, text |-> <<>>]
    ELSE LET b == Head(data) IN
         IF b < 128
         THEN LET rest == decode(Tail(data)) IN
              [err |-> rest.err, text |-> <<b>> \o rest.text]
         ELSE IF b >= 194 /\ b <= 223 /\ Len(data) >= 2
                 /\ data[2] >= 128 /\ data[2] <= 191
         THEN LET rest == decode(Tail(Tail(data))) IN
              [err |-> rest.err,
               text |-> <<(b - 192) * 64 + (data[2] - 128)>> \o rest.text]
         ELSE [err |-> "UnicodeDecodeError", text |-> <<>>]

\* an assignment that keeps the value a key already has
dictSetKeepsFirst(d, key, value) ==
    [k \in (DOMAIN d) \cup {key} |-> IF k \in DOMAIN d THEN d[k] ELSE value]

\* properties[key] = value
dictSet(d, key, value) ==
    [k \in (DOMAIN d) \cup {key} |-> IF k = key THEN value ELSE d[k]]

\* a str as a Python value, comparable with None
PyStr(s) == [kind |-> "str", value |-> s]

\* properties.get(key, None)
dictGet(d, key) == IF key \in DOMAIN d THEN PyStr(d[key]) ELSE None

EmptyDict == [k \in {} |-> None]

----------------------------------------------------------------------------
(* The output device manager (UM.OutputDevice.OutputDeviceManager), seen   *)
(* from this plugin: the devices handed to addOutputDevice, in order.      *)

\* getOutputDeviceManager().getOutputDevice(device_id): the device or None
getOutputDevice(reg, device_id) ==
    IF \E i \in 1..Len(reg) : reg[i].id = device_id
    THEN reg[CHOOSE i \in 1..Len(reg) :
                 reg[i].id = device_id /\ \A j \in 1..(i - 1) : reg[j].id # device_id]
    ELSE None

\* getOutputDeviceManager().addOutputDevice(device)
addOutputDevice(reg, device) == Append(reg, device)

\* The name of a device record. The class of the record is defined in another
\* file of the plugin and its constructor is given no name: the record's name
\* is the text of the deviceId before its "@".
deviceName(device_id) == split(device_id, At)[1]

\* SnapmakerJ1OutputDevice(device_id, address, properties): the device record
SnapmakerJ1OutputDevice(device_id, address, properties) ==
    [kind |-> "SnapmakerJ1OutputDevice", id |-> device_id,
     name |-> deviceName(device_id), address |-> address,
     properties |-> properties]

----------------------------------------------------------------------------
(* __parseMessage *)

\* the loop over parts[1:]: the properties, or the ValueError of an unpacking
RECURSIVE parseProperties(_, _)
parseProperties(parts, properties) ==
    IF parts = <<>> THEN [err |-> NoError, properties |-> properties]
    ELSE LET part == Head(parts) IN
         IF ~contains(part, Colon)
         THEN parseProperties(Tail(parts), properties)
         ELSE LET kv == split(part, Colon) IN
              IF Len(kv) # 2
              THEN [err |-> "ValueError", properties |-> properties]
              ELSE parseProperties(Tail(parts), dictSet(properties, kv[1], kv[2]))

\* what one call of __parseMessage does: the exception it raises (or none), the
\* registry after it, its calls of getOutputDevice and addOutputDevice, its log
Parsed(err, reg, lookups, inserts, log) ==
    [err |-> err, registry |-> reg, lookups |-> lookups, inserts |-> inserts,
     log |-> log]

\* register without the test "if not device"
registerAlways(reg, device_id, name, address, properties) ==
    Parsed(NoError,
           addOutputDevice(reg, SnapmakerJ1OutputDevice(device_id, address, properties)),
           1, 1, <<Info("Discovered Snapmaker J1: %s@%s", <<name, address>>)>>)

\* register that replaces the record of a deviceId the registry already holds
registerRefresh(reg, device_id, name, address, properties) ==
    LET device == getOutputDevice(reg, device_id)
        new == SnapmakerJ1OutputDevice(device_id, address, properties)
    IN  IF device = None
        THEN Parsed(NoError, addOutputDevice(reg, new), 1, 1,
                    <<Info("Discovered Snapmaker J1: %s@%s", <<name, address>>)>>)
        ELSE Parsed(NoError,
                    [i \in 1..Len(reg) |-> IF reg[i].id = device_id THEN new ELSE reg[i]],
                    1, 0, <<>>)

\* register that hands the address and the deviceId over in the wrong order
registerAddressFirst(reg, device_id, name, address, properties) ==
    LET device == getOutputDevice(reg, device_id) IN
    IF device = None
    THEN Parsed(NoError,
                addOutputDevice(reg, SnapmakerJ1OutputDevice(address, device_id, properties)),
                1, 1, <<Info("Discovered Snapmaker J1: %s@%s", <<name, address>>)>>)
    ELSE Parsed(NoError, reg, 1, 0, <<>>)

\* the part of __parseMessage from the registry lookup on
register(reg, device_id, name, address, properties) ==
    LET device == getOutputDevice(reg, device_id) IN
    IF device = None
    THEN Parsed(NoError,
                addOutputDevice(reg, SnapmakerJ1OutputDevice(device_id, address, properties)),
                1, 1, <<Info("Discovered Snapmaker J1: %s@%s", <<name, address>>)>>)
    ELSE Parsed(NoError, reg, 1, 0, <<>>)

\* accepts that lets a message without model through
acceptsMissingModel(properties) ==
    \/ dictGet(properties, ModelKey) = None
    \/ dictGet(properties, ModelKey) = PyStr(MACHINE_NAME)

\* only accept Snapmaker J1 series
accepts(properties) == dictGet(properties, ModelKey) = PyStr(MACHINE_NAME)

\* __parseMessage without the test of "@" in the first segment
parseMessageNoHeaderTest(ip, msg, reg) ==
    LET parts == split(msg, Pipe)
        device_id == parts[1]
        na == split(device_id, At)
    IN  IF Len(na) # 2
        THEN Parsed("ValueError", reg, 0, 0, <<>>)
        ELSE LET props == parseProperties(Tail(parts), EmptyDict) IN
             IF props.err # NoError
             THEN Parsed(props.err, reg, 0, 0, <<>>)
             ELSE IF ~accepts(props.properties)
             THEN Parsed(NoError, reg, 0, 0, <<>>)
             ELSE register(reg, device_id, na[1], na[2], props.properties)

\* __parseMessage(ip, msg)
parseMessage(ip, msg, reg) ==
    LET parts == split(msg, Pipe) IN
    IF Len(parts) < 1 \/ ~contains(parts[1], At)
    THEN Parsed(NoError, reg, 0, 0, <<>>)
    ELSE LET device_id == parts[1]
             na == split(device_id, At)
         IN  IF Len(na) # 2
             THEN Parsed("ValueError", reg, 0, 0, <<>>)
             ELSE LET props == parseProperties(Tail(parts), EmptyDict) IN
                  IF props.err # NoError
                  THEN Parsed(props.err, reg, 0, 0, <<>>)
                  ELSE IF ~accepts(props.properties)
                  THEN Parsed(NoError, reg, 0, 0, <<>>)
                  ELSE register(reg, device_id, na[1], na[2], props.properties)

----------------------------------------------------------------------------
(* _readSocket *)

\* QHostAddress(): the null address
NullAddress == ""

\* what one call of _readSocket has done so far: the datagrams still pending on
\* the socket, the registry, the exception that ended it (or none), the
\* datagrams it took with receiveDatagram, those that reached the try block,
\* its registry calls and its log
RECURSIVE readLoop(_)
readLoop(acc) ==
    IF acc.pending = <<>> THEN acc
    ELSE LET data == Head(acc.pending)
             took == [acc EXCEPT !.pending = Tail(acc.pending),
                                 !.received = acc.received + 1]
         IN  IF data.valid /\ data.sender # NullAddress
             THEN LET msg == decode(data.data) IN
                  IF msg.err = "UnicodeDecodeError"
                  THEN readLoop([took EXCEPT !.tried = took.tried + 1])
                  ELSE LET p == parseMessage(data.sender, msg.text, took.registry)
                           done == [took EXCEPT !.tried = took.tried + 1,
                                                !.registry = p.registry,
                                                !.lookups = took.lookups + p.lookups,
                                                !.inserts = took.inserts + p.inserts,
                                                !.log = took.log \o p.log]
                       IN  IF p.err # NoError
                           THEN [done EXCEPT !.err = p.err]
                           ELSE readLoop(done)
             ELSE readLoop(took)

readSocket(pending, reg) ==
    readLoop([pending |-> pending, registry |-> reg, err |-> NoError,
              received |-> 0, tried |-> 0, lookups |-> 0, inserts |-> 0,
              log |-> <<>>])

----------------------------------------------------------------------------
(* __prepare and __discover *)

\* a reference to the QUdpSocket with this identity
SocketRef(id) == [kind |-> "QUdpSocket", id |-> id]

\* (socket, address_entry)
Tuple(socket, address_entry) ==
    [kind |-> "tuple", socket |-> socket, address_entry |-> address_entry]

\* the address entries of all interfaces, in the order of the two loops
RECURSIVE addressEntries(_)
addressEntries(interfaces) ==
    IF interfaces = <<>> THEN <<>>
    ELSE Head(interfaces) \o addressEntries(Tail(interfaces))

\* qualifies without the loopback test
qualifiesLoopback(address_entry) == address_entry.protocol = "IPv4Protocol"

\* the two "continue" tests of __prepare
qualifies(address_entry) ==
    /\ ~address_entry.loopback
    /\ address_entry.protocol = "IPv4Protocol"

\* the body of the loops of __prepare for the entries left; windows is what
\* Platform.isWindows() returns and fails holds the addresses on which bind()
\* returns False. A socket has its identity (its place in sockets), its
\* pending datagrams, whether abort() was called on it and the socket its
\* readyRead lambda reads; binds lists the calls of bind() and their results.
RECURSIVE prepareLoop(_, _, _, _)
prepareLoop(entries, windows, fails, acc) ==
    IF entries = <<>> THEN acc
    ELSE LET address_entry == Head(entries)
             address == address_entry.ip
         IN  IF ~qualifies(address_entry)
             THEN prepareLoop(Tail(entries), windows, fails, acc)
             ELSE LET id == Len(acc.sockets) + 1
                      socket == [aborted |-> FALSE, pending |-> <<>>, slot |-> id]
                      bind == [socket |-> id, address |-> address,
                               port |-> IF windows THEN acc.available_port ELSE 0,
                               ok |-> address \notin fails]
                  IN  prepareLoop(Tail(entries), windows, fails,
                        [sockets |-> Append(acc.sockets, socket),
                         list |-> Append(acc.list, Tuple(SocketRef(id), address_entry)),
                         binds |-> Append(acc.binds, bind),
                         available_port |-> IF windows THEN acc.available_port + 1
                                                       ELSE acc.available_port,
                         log |-> Append(acc.log,
                                  Info("Discovering printers on network interface: %s",
                                       <<address>>))])

\* lambda: self._readSocket(socket): the socket the lambda of the socket with
\* identity id reads when it runs, after the loops have ended. The lambda holds
\* the variable, and the variable holds the socket the loops created last.
lambdaSocket(id, first, lastCreated) == lastCreated

prepare(interfaces, heap, windows, fails) ==
    LET r == prepareLoop(addressEntries(interfaces), windows, fails,
                         [sockets |-> heap, list |-> <<>>, binds |-> <<>>,
                          available_port |-> FirstAvailablePort, log |-> <<>>])
    IN  [sockets |-> [i \in 1..Len(r.sockets) |->
                         IF i <= Len(heap) THEN r.sockets[i]
                         ELSE [r.sockets[i] EXCEPT
                                 !.slot = lambdaSocket(i, Len(heap) + 1, Len(r.sockets))]],
         list |-> r.list, binds |-> r.binds, log |-> r.log, prepared |-> TRUE]

\* a probe sent to the address of the entry itself
probeToOwnAddress(item) ==
    [socket |-> item.socket.id, data |-> ProbePayload,
     host |-> item.address_entry.ip, port |-> DISCOVER_PORT]

\* socket.writeDatagram(b"discover", address_entry.broadcast(), DISCOVER_PORT)
probe(item) ==
    [socket |-> item.socket.id, data |-> ProbePayload,
     host |-> item.address_entry.broadcast, port |-> DISCOVER_PORT]

discover(list, heap, interfaces, windows, fails) ==
    LET p == IF list = <<>>
             THEN prepare(interfaces, heap, windows, fails)
             ELSE [sockets |-> heap, list |-> list, binds |-> <<>>, log |-> <<>>,
                   prepared |-> FALSE]
    IN  [sockets |-> p.sockets, list |-> p.list, binds |-> p.binds, log |-> p.log,
         prepared |-> p.prepared,
         sent |-> [i \in 1..Len(p.list) |-> probe(p.list[i])]]

----------------------------------------------------------------------------
(* start and stop *)

\* start without the test of isActive(): QTimer.start() restarts a running timer
startAlways(active, left) ==
    [timerActive |-> TRUE, remaining |-> TimerInterval,
     log |-> <<Info("Snapmaker J1 discovering started.", <<>>)>>]

\* start(): the timer after it, and its log
start(active, left) ==
    IF ~active
    THEN [timerActive |-> TRUE, remaining |-> TimerInterval,
          log |-> <<Info("Snapmaker J1 discovering started.", <<>>)>>]
    ELSE [timerActive |-> active, remaining |-> left, log |-> <<>>]

\* QUdpSocket.abort()
abort(socket) == [socket EXCEPT !.aborted = TRUE, !.pending = <<>>]

\* for socket in self._discover_sockets: the object abort() is called on is the
\* element of the list
abortReceiver(item) == item

\* the loop of stop(): AttributeError on an object that has no abort()
RECURSIVE stopLoop(_, _)
stopLoop(items, heap) ==
    IF items = <<>> THEN [err |-> NoError, sockets |-> heap]
    ELSE LET receiver == abortReceiver(Head(items)) IN
         IF receiver.kind # "QUdpSocket"
         THEN [err |-> "AttributeError", sockets |-> heap]
         ELSE stopLoop(Tail(items),
                       [heap EXCEPT ![receiver.id] = abort(heap[receiver.id])])

\* stop(): the timer and the sockets after it, the exception it raised, its log
stop(list, heap) ==
    LET r == stopLoop(list, heap) IN
    [timerActive |-> FALSE, remaining |-> -1, sockets |-> r.sockets, err |-> r.err,
     log |-> IF r.err = NoError
             THEN <<Info("Snapmaker J1 discovering stopped.", <<>>)>> ELSE <<>>]

----------------------------------------------------------------------------
(* The environment. *)

Lo4 == [ip |-> "127.0.0.1", loopback |-> TRUE, protocol |-> "IPv4Protocol",
        broadcast |-> ""]
Lo6 == [ip |-> "::1", loopback |-> TRUE, protocol |-> "IPv6Protocol",
        broadcast |-> ""]
Eth4 == [ip |-> "192.168.1.5", loopback |-> FALSE, protocol |-> "IPv4Protocol",
         broadcast |-> "192.168.1.255"]
Eth6 == [ip |-> "fe80::1", loopback |-> FALSE, protocol |-> "IPv6Protocol",
         broadcast |-> ""]
Wlan4 == [ip |-> "10.0.0.7", loopback |-> FALSE, protocol |-> "IPv4Protocol",
          broadcast |-> "10.0.0.255"]

\* what QNetworkInterface.allInterfaces() may return: per interface its entries
Networks ==
    { << <<Lo4, Lo6>> >>,
      << <<Lo4>>, <<Eth4, Eth6>>, <<Wlan4>> >> }

\* a host with two usable addresses
TwoChannelNetwork == << <<Lo4>>, <<Eth4, Eth6>>, <<Wlan4>> >>

\* the addresses bind() may be asked for
Addresses(interfaces) ==
    { addressEntries(interfaces)[i].ip : i \in 1..Len(addressEntries(interfaces)) }

Datagram(sender, chars) == [valid |-> TRUE, sender |-> sender, data |-> Str(chars)]

\* "X@1|model:J1"
DgX == Datagram("192.168.1.9",
                <<"X", "@", "1", "|", "m", "o", "d", "e", "l", ":", "J", "1">>)
\* "X@1|model:J1|s:i": the same device with one more property
DgXStatus == Datagram("192.168.1.9",
                <<"X", "@", "1", "|", "m", "o", "d", "e", "l", ":", "J", "1",
                  "|", "s", ":", "i">>)
\* "Y@2|model:J2": another model
DgOtherModel == Datagram("192.168.1.8",
                <<"Y", "@", "2", "|", "m", "o", "d", "e", "l", ":", "J", "2">>)
\* "Y@2|s:i": no model
DgNoModel == Datagram("192.168.1.8", <<"Y", "@", "2", "|", "s", ":", "i">>)
\* "Y@2@1|model:J1": two "@" in the first segment
DgTwoAt == Datagram("192.168.1.8",
                <<"Y", "@", "2", "@", "1", "|", "m", "o", "d", "e", "l", ":", "J", "1">>)
\* "Y@2|model:J1|a:b:c": two ":" in a property segment
DgTwoColon == Datagram("192.168.1.8",
                <<"Y", "@", "2", "|", "m", "o", "d", "e", "l", ":", "J", "1",
                  "|", "a", ":", "b", ":", "c">>)
\* a datagram the transport marks invalid
DgInvalid == [valid |-> FALSE, sender |-> NullAddress, data |-> <<>>]

Datagrams ==
    {DgX, DgXStatus, DgOtherModel, DgNoModel, DgTwoAt, DgTwoColon, DgInvalid}

\* "|key:value"
Segment(key, value) == <<Pipe>> \o key \o <<Colon>> \o value

\* "<n>@<a>|model:J1|<k>:<v>", or with the two property segments exchanged
WellFormed(n, a, k, v, modelFirst) ==
    [valid |-> TRUE, sender |-> "192.168.1.9",
     data |-> n \o <<At>> \o a \o
              (IF modelFirst
               THEN Segment(ModelKey, MACHINE_NAME) \o Segment(k, v)
               ELSE Segment(k, v) \o Segment(ModelKey, MACHINE_NAME))]

CodecNames == {Str(<<"X">>), Str(<<"Y">>)}
CodecAddresses == {Str(<<"1">>), Str(<<"2">>)}
CodecKeys == {Str(<<"s">>)}
CodecValues == {Str(<<"i">>), Str(<<"b">>)}

WellFormedDatagrams ==
    { WellFormed(n, a, k, v, f) :
        n \in CodecNames, a \in CodecAddresses, k \in CodecKeys, v \in CodecValues,
        f \in BOOLEAN }

\* bytes that are no UTF-8: a byte 0xFF, a lead byte with nothing after it, and
\* "X@1|model:J1" followed by a byte 0xFF
DgNotUtf8 == [valid |-> TRUE, sender |-> "192.168.1.9", data |-> <<88, 255>>]
DgTruncated == [valid |-> TRUE, sender |-> "192.168.1.9", data |-> <<88, 64, 49, 195>>]
DgNotUtf8Tail == [valid |-> TRUE, sender |-> "192.168.1.9", data |-> DgX.data \o <<255>>]
\* "X|model:J1": no "@" in the first segment
DgNoAt == Datagram("192.168.1.9", <<"X", "|", "m", "o", "d", "e", "l", ":", "J", "1">>)
\* "X1|Y@2|model:J1": the "@" is not in the first segment
DgAtLater == Datagram("192.168.1.9",
                <<"X", "1", "|", "Y", "@", "2", "|", "m", "o", "d", "e", "l", ":", "J", "1">>)
\* the empty message
DgEmpty == Datagram("192.168.1.9", <<>>)
\* "Y@2|model:J1|model:J2" and "Y@2|model:J2|model:J1": the key model twice
DgDupLastOther == Datagram("192.168.1.8",
                <<"Y", "@", "2", "|", "m", "o", "d", "e", "l", ":", "J", "1",
                  "|", "m", "o", "d", "e", "l", ":", "J", "2">>)
DgDupLastMatch == Datagram("192.168.1.8",
                <<"Y", "@", "2", "|", "m", "o", "d", "e", "l", ":", "J", "2",
                  "|", "m", "o", "d", "e", "l", ":", "J", "1">>)
\* "Y@2|abc|model:J1": a segment without ":"
DgGarbage == Datagram("192.168.1.8",
                <<"Y", "@", "2", "|", "a", "b", "c", "|", "m", "o", "d", "e", "l", ":", "J", "1">>)
\* the bytes of "\u00e9@1|model:J1": a name of one character encoded in two bytes
DgTwoByte == [valid |-> TRUE, sender |-> "192.168.1.9",
              data |-> <<195, 169>> \o <<At>> \o Str(<<"1">>)
                       \o Segment(ModelKey, MACHINE_NAME)]

\* the datagrams the parsing is studied on
CodecDatagrams ==
    WellFormedDatagrams \cup
    {DgNotUtf8, DgTruncated, DgNotUtf8Tail, DgNoAt, DgAtLater, DgEmpty,
     DgDupLastOther, DgDupLastMatch, DgGarbage, DgTwoByte,
     DgOtherModel, DgTwoAt, DgTwoColon, DgInvalid}

\* the queues of pending datagrams the parsing is studied on
CodecQueues == UNION { [1..n -> CodecDatagrams] : n \in 1..MaxCodecQueue }

\* the machine names a global container stack may have
MachineNames == {MACHINE_NAME, Str(<<"a">>)}

----------------------------------------------------------------------------
(* The handlers. *)

\* what a handler did: its name, the exception it raised, its log, and per
\* handler: what allInterfaces() returned to __prepare, whether __discover
\* called __prepare, the calls of bind() and the probes sent; the socket whose
\* readyRead ran the lambda, the socket _readSocket was called with, the
\* datagrams that were pending on it, how many reached the try block and the
\* registry calls; the machine name read
Did(op, err, log) ==
    [op |-> op, err |-> err, log |-> log, interfaces |-> <<>>, prepared |-> FALSE,
     binds |-> <<>>, sent |-> <<>>, signalled |-> 0, drained |-> 0, queue |-> <<>>,
     tried |-> 0, lookups |-> 0, inserts |-> 0, machine_name |-> <<>>]

PendingTotal == LET RECURSIVE sum(_)
                    sum(i) == IF i = 0 THEN 0 ELSE Len(sockets[i].pending) + sum(i - 1)
                IN  sum(Len(sockets))

Init ==
    /\ timerActive = FALSE
    /\ remaining = -1
    /\ discover_sockets = <<>>
    /\ sockets = <<>>
    /\ registry = <<>>
    /\ readyRead = {}
    /\ stopped = {}
    /\ last = Did("__init__", NoError, <<>>)

\* start(), called by the output device manager
Start ==
    LET r == start(timerActive, remaining) IN
    /\ timerActive' = r.timerActive
    /\ remaining' = r.remaining
    /\ last' = Did("start", NoError, r.log)
    /\ UNCHANGED <<discover_sockets, sockets, registry, readyRead, stopped>>

\* the sockets of a channel set
SocketsOf(list) == { list[i].socket.id : i \in 1..Len(list) }

StopAs(op) ==
    LET r == stop(discover_sockets, sockets) IN
    /\ timerActive' = r.timerActive
    /\ remaining' = r.remaining
    /\ sockets' = r.sockets
    /\ stopped' = SocketsOf(discover_sockets)
    /\ last' = Did(op, r.err, r.log)
    /\ UNCHANGED <<discover_sockets, registry, readyRead>>

\* stop(), called by the output device manager
Stop == StopAs("stop")

\* applicationShuttingDown.connect(self.stop)
ApplicationShuttingDown == StopAs("applicationShuttingDown")

\* _onGlobalContainerStackChanged, with the machine name the stack has
OnGlobalContainerStackChanged ==
    \E name \in MachineNames :
        IF name = MACHINE_NAME
        THEN LET r == start(timerActive, remaining) IN
             /\ timerActive' = r.timerActive
             /\ remaining' = r.remaining
             /\ last' = [Did("_onGlobalContainerStackChanged", NoError, r.log)
                           EXCEPT !.machine_name = name]
             /\ UNCHANGED <<discover_sockets, sockets, registry,
                            readyRead, stopped>>
        ELSE LET r == stop(discover_sockets, sockets) IN
             /\ timerActive' = r.timerActive
             /\ remaining' = r.remaining
             /\ sockets' = r.sockets
             /\ stopped' = SocketsOf(discover_sockets)
             /\ last' = [Did("_onGlobalContainerStackChanged", r.err, r.log)
                           EXCEPT !.machine_name = name]
             /\ UNCHANGED <<discover_sockets, registry, readyRead>>

\* one call of __discover, with what the system answers to it: the interfaces,
\* the platform and the addresses that cannot be bound
DiscoverOn(op, networks) ==
    \E interfaces \in (IF discover_sockets = <<>> THEN networks ELSE {<<>>}) :
      \E windows \in (IF interfaces = <<>> THEN {FALSE} ELSE BOOLEAN) :
        \E fails \in SUBSET (Addresses(interfaces) \cap {Eth4.ip}) :
          LET r == discover(discover_sockets, sockets, interfaces, windows, fails) IN
          /\ Len(r.sockets) <= MaxSockets
          /\ discover_sockets' = r.list
          /\ sockets' = r.sockets
          /\ stopped' = IF r.prepared THEN {} ELSE stopped
          /\ last' = [Did(op, NoError, r.log) EXCEPT !.interfaces = interfaces,
                                                     !.prepared = r.prepared,
                                                     !.binds = r.binds,
                                                     !.sent = r.sent]

DiscoverAs(op) == DiscoverOn(op, Networks)

\* the timer's timeout signal: __discover, and the timer starts its next interval
Timeout ==
    /\ timerActive
    /\ remaining = 0
    /\ DiscoverAs("timeout")
    /\ remaining' = TimerInterval
    /\ UNCHANGED <<timerActive, registry, readyRead>>

\* startDiscovery() that restarts the interval of a running timer
StartDiscoveryRestartsTimer ==
    /\ DiscoverAs("startDiscovery")
    /\ remaining' = IF timerActive THEN TimerInterval ELSE remaining
    /\ UNCHANGED <<timerActive, registry, readyRead>>

\* startDiscovery(), called by the application
StartDiscovery ==
    /\ DiscoverAs("startDiscovery")
    /\ UNCHANGED <<timerActive, remaining, registry, readyRead>>

\* time passes while the timer runs
AdvanceTime ==
    /\ timerActive
    /\ remaining > 0
    /\ remaining' = IF remaining > TimeQuantum THEN remaining - TimeQuantum ELSE 0
    /\ last' = Did("time passes", NoError, <<>>)
    /\ UNCHANGED <<timerActive, discover_sockets, sockets, registry,
                   readyRead, stopped>>

\* a datagram arrives on a socket, which emits readyRead
Arrive ==
    \E id \in DOMAIN sockets :
      \E data \in Datagrams :
        /\ ~sockets[id].aborted
        /\ PendingTotal < MaxPending
        /\ sockets' = [sockets EXCEPT ![id].pending = Append(@, data)]
        /\ readyRead' = readyRead \cup {id}
        /\ last' = Did("datagram arrives", NoError, <<>>)
        /\ UNCHANGED <<timerActive, remaining, discover_sockets, registry, stopped>>

\* the event loop runs the lambda connected to the readyRead of a socket
ReadyRead ==
    \E id \in readyRead :
        LET socket == sockets[id].slot
            r == readSocket(sockets[socket].pending, registry)
        IN  /\ sockets' = [sockets EXCEPT ![socket].pending = r.pending]
            /\ registry' = r.registry
            /\ readyRead' = readyRead \ {id}
            /\ last' = [Did("_readSocket", r.err, r.log) EXCEPT
                          !.signalled = id,
                          !.drained = socket,
                          !.queue = sockets[socket].pending,
                          !.tried = r.tried,
                          !.lookups = r.lookups,
                          !.inserts = r.inserts]
            /\ UNCHANGED <<timerActive, remaining, discover_sockets,
                           stopped>>

Next ==
    \/ Start
    \/ Stop
    \/ ApplicationShuttingDown
    \/ OnGlobalContainerStackChanged
    \/ Timeout
    \/ StartDiscovery
    \/ AdvanceTime
    \/ Arrive
    \/ ReadyRead

Spec == Init /\ [][Next]_vars

----------------------------------------------------------------------------
(* Discovery while the timer stays active, on a host with two usable       *)
(* addresses and one device of the model MACHINE_NAME on the network of    *)
(* each: a device answers every probe broadcast on its network, and the    *)
(* answer arrives on the socket the probe was written on.                  *)

\* "Y@2|model:J1", sent from the network of Wlan4
DgY == Datagram("10.0.0.8",
                <<"Y", "@", "2", "|", "m", "o", "d", "e", "l", ":", "J", "1">>)

LiveDevices ==
    { [id |-> Str(<<"X", "@", "1">>), network |-> Eth4.broadcast, answer |-> DgX],
      [id |-> Str(<<"Y", "@", "2">>), network |-> Wlan4.broadcast, answer |-> DgY] }

\* the host enumerates its interfaces in one of two orders
LiveNetworks == {TwoChannelNetwork, << <<Wlan4>>, <<Lo4>>, <<Eth4, Eth6>> >>}

\* the probes of the round that has just run are not answered yet
ProbesUnanswered == last.op = "timeout" /\ last.sent # <<>>

\* the answer that arrives on a socket for the probe written on it, if any
Answers(id) ==
    { d.answer : d \in { e \in LiveDevices :
                          \E i \in 1..Len(last.sent) :
                              /\ last.sent[i].socket = id
                              /\ last.sent[i].host = e.network } }

\* the sockets whose receive buffer takes one more datagram
Receiving(id) == ~sockets[id].aborted /\ Len(sockets[id].pending) < MaxPending

\* every device answers the probe of the round; a socket whose receive buffer
\* is full drops the answer
AnswerProbes ==
    /\ ProbesUnanswered
    /\ sockets' = [id \in DOMAIN sockets |->
                     IF Answers(id) # {} /\ Receiving(id)
                     THEN [sockets[id] EXCEPT
                             !.pending = Append(@, CHOOSE a \in Answers(id) : TRUE)]
                     ELSE sockets[id]]
    /\ readyRead' = readyRead \cup
                       { id \in DOMAIN sockets : Answers(id) # {} /\ Receiving(id) }
    /\ last' = Did("datagram arrives", NoError, <<>>)
    /\ UNCHANGED <<timerActive, remaining, discover_sockets, registry, stopped>>

\* start() is called once
LiveStart == ~timerActive /\ Start

LiveTimeout ==
    /\ timerActive
    /\ remaining = 0
    /\ DiscoverOn("timeout", LiveNetworks)
    /\ remaining' = TimerInterval
    /\ UNCHANGED <<timerActive, registry, readyRead>>

LiveAdvanceTime == ~ProbesUnanswered /\ AdvanceTime

LiveReadyRead == ~ProbesUnanswered /\ ReadyRead

NextLive ==
    \/ LiveStart
    \/ LiveAdvanceTime
    \/ LiveTimeout
    \/ AnswerProbes
    \/ LiveReadyRead

\* LiveReadyRead can run: a readyRead callback is due
ReadyReadDue == ~ProbesUnanswered /\ readyRead # {}

\* a step of LiveReadyRead: the only action that sets last.op to "_readSocket",
\* and it takes a socket out of readyRead
ReadyReadRan == last'.op = "_readSocket" /\ readyRead' # readyRead

\* the timer keeps running and fires, the devices answer, and the event loop
\* runs every callback that is due. The last conjunct is the strong fairness
\* of LiveReadyRead, with its enabling condition and its steps written out: a
\* callback that is due again and again is run, it does not wait for a moment
\* in which no probe is in flight.
SpecLive ==
    /\ Init
    /\ [][NextLive]_vars
    /\ WF_vars(LiveStart)
    /\ WF_vars(LiveAdvanceTime)
    /\ WF_vars(LiveTimeout)
    /\ WF_vars(AnswerProbes)
    /\ (<>[](~ReadyReadDue) \/ []<><<ReadyReadRan>>_vars)

----------------------------------------------------------------------------
(* The parsing of datagrams, studied on its own: the plugin has run one    *)
(* round on a network with two usable addresses, the registry is empty or  *)
(* holds the device of "X@1|model:J1", and a queue of datagrams waits on   *)
(* the socket that the readyRead lambda reads.                             *)

CodecRegistries == { <<>>, readSocket(<<DgX>>, <<>>).registry }

InitCodec ==
    LET r == discover(<<>>, <<>>, TwoChannelNetwork, FALSE, {})
        socket == Len(r.sockets)
    IN  \E queue \in CodecQueues :
          \E reg \in CodecRegistries :
            /\ timerActive = TRUE
            /\ remaining = TimerInterval
            /\ discover_sockets = r.list
            /\ sockets = [r.sockets EXCEPT ![socket].pending = queue]
            /\ registry = reg
            /\ readyRead = {socket}
            /\ stopped = {}
            /\ last = Did("datagram arrives", NoError, <<>>)

NextCodec == ReadyRead

SpecCodec == InitCodec /\ [][NextCodec]_vars

----------------------------------------------------------------------------
(* Properties. Every event sets last, so last.op names the handler whose   *)
(* result the state is, and in a step last'.op names the handler that ran. *)

DiscoverOps == {"timeout", "startDiscovery"}

StopOps == {"stop", "applicationShuttingDown"}

\* the sockets of the channel set
Channels == SocketsOf(discover_sockets)

AllChannelsAborted == \A id \in Channels : sockets[id].aborted

\* the datagrams of a queue that the transport passes on to the try block
TransportValid(queue) ==
    { i \in 1..Len(queue) : queue[i].valid /\ queue[i].sender # NullAddress }

\* the datagrams without a model property, or with another model
NonMatching == {DgOtherModel, DgNoModel}

\* the datagrams of a queue that may reach the registry
MayMatch(queue) == { i \in 1..Len(queue) : queue[i] \notin NonMatching }

\* C1: the registry never holds two records with one deviceId, and a record,
\* once inserted, stays as it is at its place: the record of a deviceId is the
\* one of the first accepted advertisement, whatever arrives later.
C1_FirstRecordWins ==
    [][ /\ \A i \in 1..Len(registry) :
              i <= Len(registry') /\ registry'[i] = registry[i]
        /\ \A i, j \in 1..Len(registry') :
              registry'[i].id = registry'[j].id => i = j ]_vars

\* C1 witness: _readSocket has looked up a device that was registered from
\* "X@1|model:J1" while handling "X@1|model:J1|s:i", and inserted nothing.
C1_Witness ==
    /\ last.op = "_readSocket"
    /\ last.queue = <<DgXStatus>>
    /\ last.lookups = 1
    /\ last.inserts = 0
    /\ Len(registry) = 1
    /\ DOMAIN registry[1].properties = {ModelKey}

\* C2: a datagram without model, or with another model, causes no registry
\* lookup and no insert: _readSocket makes at most one lookup per other
\* datagram of the queue, and a queue of such datagrams only leaves the
\* registry unchanged.
C2_NonMatchingNeverReachesRegistry ==
    [][ last'.op = "_readSocket" =>
          /\ last'.lookups <= Cardinality(MayMatch(last'.queue))
          /\ last'.inserts <= Cardinality(MayMatch(last'.queue))
          /\ MayMatch(last'.queue) = {} => registry' = registry ]_vars

\* C2 witness: _readSocket has handled one datagram without model and one with
\* another model, without an exception and without a registry call.
C2_Witness ==
    /\ last.op = "_readSocket"
    /\ last.err = NoError
    /\ \E i, j \in 1..Len(last.queue) :
          last.queue[i] = DgNoModel /\ last.queue[j] = DgOtherModel
    /\ last.tried = 2
    /\ last.lookups = 0
    /\ last.inserts = 0

\* C3 as claimed: stop() raises nothing in any state, and a stop() that follows
\* a stop() changes nothing.
C3_StopIsSafe ==
    [][ last'.op \in StopOps =>
          /\ last'.err = NoError
          /\ last.op \in StopOps =>
                UNCHANGED <<timerActive, remaining, discover_sockets, sockets,
                            registry, readyRead>> ]_vars

\* C4 as claimed: the first round after a stop() of a non-empty channel set
\* calls __prepare and sends no probe on a socket of the stopped set.
C4_RoundAfterStopRebuilds ==
    [][ (last'.op \in DiscoverOps /\ stopped # {}) =>
          /\ last'.prepared
          /\ \A i \in 1..Len(last'.sent) : last'.sent[i].socket \notin stopped ]_vars

\* C5 as claimed: after the handler of applicationShuttingDown the timer is
\* inactive and every channel is aborted.
C5_ShutdownLeavesNothing ==
    last.op = "applicationShuttingDown" => ~timerActive /\ AllChannelsAborted

\* C6 as claimed: _readSocket raises nothing, whatever the datagrams are, and
\* leaves the timer and the channel set alone.
C6_DrainNeverRaises ==
    [][ last'.op = "_readSocket" =>
          /\ last'.err = NoError
          /\ UNCHANGED <<timerActive, remaining, discover_sockets>> ]_vars

\* C7 as claimed: one call of _readSocket leaves no datagram pending on its
\* socket and makes one parse attempt per transport-valid datagram.
C7_DrainConsumesAll ==
    last.op = "_readSocket" =>
        /\ sockets[last.drained].pending = <<>>
        /\ last.tried = Cardinality(TransportValid(last.queue))

\* the entries of an enumeration that are IPv4 and not loopback
QualifyingEntries(interfaces) ==
    { e \in UNION { { interfaces[i][j] : j \in DOMAIN interfaces[i] } :
                    i \in DOMAIN interfaces } :
        ~e.loopback /\ e.protocol = "IPv4Protocol" }

\* the probes of the round sent on a socket
ProbesOn(id) == { i \in 1..Len(last.sent) : last.sent[i].socket = id }

\* the channels made for an address entry, on whose socket bind() was called
\* with the address of the entry
ChannelsFor(e) ==
    { i \in 1..Len(discover_sockets) :
        /\ discover_sockets[i].address_entry = e
        /\ \E k \in 1..Len(last.binds) :
              /\ last.binds[k].socket = discover_sockets[i].socket.id
              /\ last.binds[k].address = e.ip }

C9_ProfileDecidesState ==
    last.op = "_onGlobalContainerStackChanged" =>
        IF last.machine_name = MACHINE_NAME
        THEN timerActive
        ELSE ~timerActive /\ AllChannelsAborted

\* C10: start() while the timer is active changes nothing: the timer keeps
\* running with the same remaining time, the channel set and the sockets stay.
C10_StartIdempotent ==
    [][ (last'.op = "start" /\ timerActive) =>
          /\ UNCHANGED <<timerActive, remaining, discover_sockets, sockets, registry,
                         readyRead, stopped>>
          /\ last'.log = <<>> ]_vars

\* C10 witness: start() was called while the timer was running with part of
\* its interval gone.
C10_Witness ==
    /\ last.op = "start"
    /\ last.log = <<>>
    /\ timerActive
    /\ remaining >= 0
    /\ remaining < TimerInterval


\* C11: startDiscovery() runs one discovery round, one probe on each channel
\* of the channel set it leaves, and leaves the timer as it was: active or
\* not as before, with the time left of the current interval as before.
C11_TriggerLeavesTimer ==
    [][last'.op = "startDiscovery" =>
          /\ timerActive' = timerActive
          /\ remaining' = remaining
          /\ Len(last'.sent) = Len(discover_sockets')
          /\ \A i \in 1..Len(discover_sockets') :
                last'.sent[i].socket = discover_sockets'[i].socket.id]_vars

\* C11 witness: startDiscovery() has sent probes while the timer runs in the
\* middle of its interval.
C11_Witness ==
    /\ last.op = "startDiscovery"
    /\ timerActive
    /\ remaining > 0
    /\ remaining < TimerInterval
    /\ Len(last.sent) >= 1

\* the datagrams whose bytes are no UTF-8
NotUtf8Datagrams == {DgNotUtf8, DgTruncated, DgNotUtf8Tail}

\* the datagrams whose text has no "@" in its first pipe segment
NoHeaderDatagrams == {DgNoAt, DgAtLater, DgEmpty}

\* the places of a queue that hold neither
WellEncoded(queue) ==
    { i \in 1..Len(queue) : queue[i] \notin NotUtf8Datagrams \cup NoHeaderDatagrams }

\* C12: a datagram whose bytes are no UTF-8, or whose text has no "@" in its
\* first pipe segment, is dropped: draining a queue of such datagrams raises
\* no exception, calls neither getOutputDevice nor addOutputDevice, logs
\* nothing, leaves the registry as it was and empties the queue; in any queue
\* the registry is looked up at most once per datagram that is not of these.
C12_MalformedDropped ==
    [][last'.op = "_readSocket" =>
          /\ last'.lookups <= Cardinality(WellEncoded(last'.queue))
          /\ WellEncoded(last'.queue) = {} =>
                /\ last'.err = NoError
                /\ last'.lookups = 0
                /\ last'.inserts = 0
                /\ last'.log = <<>>
                /\ registry' = registry
                /\ sockets'[last'.drained].pending = <<>>]_vars

\* C12 witness: a queue of "X@1|model:J1" followed by a byte 0xFF and of
\* "X|model:J1" was drained, both datagrams reached the try block, and the
\* registry is empty.
C12_Witness ==
    /\ last.op = "_readSocket"
    /\ last.queue = <<DgNotUtf8Tail, DgNoAt>>
    /\ last.tried = 2
    /\ last.err = NoError
    /\ registry = <<>>

\* the record and the log entry claimed for "<n>@<a>|model:J1|<k>:<v>"
RecordOf(n, a, k, v) ==
    [kind |-> "SnapmakerJ1OutputDevice",
     id |-> n \o <<64>> \o a,
     name |-> n,
     address |-> a,
     properties |-> [x \in {<<109, 111, 100, 101, 108>>, k} |->
                        IF x = k THEN v ELSE <<74, 49>>]]

C14_ReadinessDrainsOwnChannel ==
    last.op = "_readSocket" =>
        /\ last.drained = last.signalled
        /\ last.err = NoError => sockets[last.signalled].pending = <<>>

\* C15 as claimed: a property segment is split on its first ":" only: draining
\* "Y@2|model:J1|a:b:c" raises nothing and leaves the device Y@2 in the
\* registry with the property a of value "b:c".
C15_SplitOnFirstColon ==
    (last.op = "_readSocket" /\ last.queue = <<DgTwoColon>>) =>
        /\ last.err = NoError
        /\ \E i \in 1..Len(registry) :
              /\ registry[i].id = <<89, 64, 50>>
              /\ <<97>> \in DOMAIN registry[i].properties
              /\ registry[i].properties[<<97>>] = <<98, 58, 99>>

\* the dict {"model": value}
OnlyModel(value) == [x \in {<<109, 111, 100, 101, 108>>} |-> value]

\* C16: the properties are the fold of the segments in order: a segment
\* without ":" adds nothing and is no error, and the last value of a key
\* wins. "Y@2|model:J1|model:J2" is filtered on J2 and reaches no registry
\* call; "Y@2|model:J2|model:J1" is registered with model J1;
\* "Y@2|abc|model:J1" is registered with the one property model.
C16_LastValueWins ==
    last.op = "_readSocket" =>
        /\ last.queue = <<DgDupLastOther>> =>
              /\ last.err = NoError
              /\ last.lookups = 0
              /\ last.inserts = 0
        /\ last.queue \in {<<DgDupLastMatch>>, <<DgGarbage>>} =>
              /\ last.err = NoError
              /\ last.inserts = 1
              /\ registry[Len(registry)].id = <<89, 64, 50>>
              /\ registry[Len(registry)].properties = OnlyModel(<<74, 49>>)

\* C16 witness: "Y@2|model:J1|model:J2" reached the try block and no registry
\* call was made.
C16_Witness ==
    /\ last.op = "_readSocket"
    /\ last.queue = <<DgDupLastOther>>
    /\ last.tried = 1
    /\ last.lookups = 0

\* C17 as claimed: when bind() fails for a qualifying address during
\* __prepare, the failure is logged as an error, and the sockets bound to the
\* other addresses are channels on which the round sends its probes.
C17_BindFailureReported ==
    (/\ last.op \in DiscoverOps
     /\ last.prepared
     /\ \E k \in 1..Len(last.binds) : ~last.binds[k].ok) =>
        /\ \E i \in 1..Len(last.log) : last.log[i].level = "error"
        /\ \A k \in 1..Len(last.binds) :
              last.binds[k].ok =>
                  /\ last.binds[k].socket \in Channels
                  /\ Cardinality(ProbesOn(last.binds[k].socket)) = 1

\* C18: every probe of every round has the payload "discover" and the
\* destination port 20054, and goes from the socket of a channel to the
\* broadcast address of that channel's address entry, which is neither a
\* loopback entry nor an entry of another protocol than IPv4.
C18_ProbesAreBroadcastDiscover ==
    last.op \in DiscoverOps =>
        \A i \in 1..Len(last.sent) :
            /\ last.sent[i].data = <<100, 105, 115, 99, 111, 118, 101, 114>>
            /\ last.sent[i].port = 20054
            /\ \E j \in 1..Len(discover_sockets) :
                  /\ discover_sockets[j].socket.id = last.sent[i].socket
                  /\ discover_sockets[j].address_entry.broadcast = last.sent[i].host
                  /\ discover_sockets[j].address_entry \in {Eth4, Wlan4}
            /\ last.sent[i].host \in {"192.168.1.255", "10.0.0.255"}

\* C18 witness: a round run by the timer on a channel set built earlier has
\* sent two probes.
C18_Witness ==
    /\ last.op = "timeout"
    /\ ~last.prepared
    /\ Len(last.sent) = 2

\* C19: _readSocket leaves the timer and the channel set as they were; every
\* other handler and event (start, stop, the timer's timeout, startDiscovery
\* with or without __prepare, the profile change, the shutdown) leaves the
\* registry as it was; and the registry changes only by records appended to
\* it, each of a deviceId it did not hold and of the model MACHINE_NAME.
C19_FrameConditions ==
    [][/\ last'.op = "_readSocket" =>
            /\ timerActive' = timerActive
            /\ remaining' = remaining
            /\ discover_sockets' = discover_sockets
       /\ last'.op # "_readSocket" => registry' = registry
       /\ registry' # registry =>
            /\ Len(registry') > Len(registry)
            /\ SubSeq(registry', 1, Len(registry)) = registry
            /\ \A i \in (Len(registry) + 1)..Len(registry') :
                  /\ \A j \in 1..(i - 1) : registry'[j].id # registry'[i].id
                  /\ registry'[i].properties[<<109, 111, 100, 101, 108>>] = <<74, 49>>]_vars

\* C19 witness: while the timer runs in the middle of its interval and two
\* channels exist, _readSocket has inserted a device.
C19_Witness ==
    /\ last.op = "_readSocket"
    /\ last.inserts = 1
    /\ timerActive
    /\ remaining < TimerInterval
    /\ Len(discover_sockets) = 2

Registered(device_id) == \E i \in 1..Len(registry) : registry[i].id = device_id

\* C20 as claimed: while the timer stays active and fires, and a device of
\* the model MACHINE_NAME answers every probe with a well-formed advertisement
\* on the socket the probe was written on, the deviceId is in the registry
\* after finitely many rounds, whether the device is on the network of the
\* first channel (X@1) or of the second (Y@2).
C20_AnsweringDeviceGetsRegistered ==
    /\ <>Registered(<<88, 64, 49>>)
    /\ <>Registered(<<89, 64, 50>>)

====
